---- MODULE Spec2Model ----
(***************************************************************************)
(* DuckyScript compiler (src/compiler.py): the line dispatcher             *)
(* compile_script, the encoders encode_delay / encode_char /               *)
(* encode_string, the key lookup get_key_code and the modifier-combo       *)
(* resolver parse_modifier_combo.                                          *)
(*                                                                         *)
(* A Python str is modelled as the sequence of its characters, each        *)
(* character a one-character string, so that strip, split, upper, lower,   *)
(* startswith, slicing and int() are computed and not assumed.             *)
(***************************************************************************)
EXTENDS Integers, Sequences, FiniteSets, TLC

VARIABLES
    lines,          \* compile_script: lines = f.readlines()
    line_num,       \* compile_script: index of the next line of the for loop
    payload,        \* compile_script: payload, the list of bytes
    default_delay,  \* compile_script: default_delay
    pc,             \* "loop", "done" (payload written), "crashed" (exception left compile_script)
    output,         \* the bytes written to output_path
    log,            \* history: one record per line the loop has gone through
    call            \* a direct call of one of the pure functions, with its result

vars == <<lines, line_num, payload, default_delay, pc, output, log, call>>

-----------------------------------------------------------------------------
(* Bounds of the model.                                                    *)

\* Longest script, in lines.
MaxLines == 3

\* Largest |ms| given to encode_delay directly.
MaxMs == 520

-----------------------------------------------------------------------------
(* Symbol tables.                                                          *)

\* HID keycodes of the unshifted printable characters. The grave accent, which a
\* TLA+ string cannot hold, is written "grave".
KEYCODES ==
    ("a" :> 4) @@ ("b" :> 5) @@ ("c" :> 6) @@ ("d" :> 7) @@ ("e" :> 8) @@ ("f" :> 9) @@
    ("g" :> 10) @@ ("h" :> 11) @@ ("i" :> 12) @@ ("j" :> 13) @@ ("k" :> 14) @@ ("l" :> 15) @@
    ("m" :> 16) @@ ("n" :> 17) @@ ("o" :> 18) @@ ("p" :> 19) @@ ("q" :> 20) @@ ("r" :> 21) @@
    ("s" :> 22) @@ ("t" :> 23) @@ ("u" :> 24) @@ ("v" :> 25) @@ ("w" :> 26) @@ ("x" :> 27) @@
    ("y" :> 28) @@ ("z" :> 29) @@ ("1" :> 30) @@ ("2" :> 31) @@ ("3" :> 32) @@ ("4" :> 33) @@
    ("5" :> 34) @@ ("6" :> 35) @@ ("7" :> 36) @@ ("8" :> 37) @@ ("9" :> 38) @@ ("0" :> 39) @@
    ("," :> 54) @@ ("." :> 55) @@ ("/" :> 56) @@ (";" :> 51) @@ ("'" :> 52) @@ ("[" :> 47) @@
    ("]" :> 48) @@ ("\\" :> 49) @@ ("-" :> 45) @@ ("=" :> 46) @@ ("grave" :> 53) @@ (" " :> 44)

\* HID keycodes of the characters typed with SHIFT held.
SHIFT_CHARS ==
    ("A" :> 4) @@ ("B" :> 5) @@ ("C" :> 6) @@ ("D" :> 7) @@ ("E" :> 8) @@ ("F" :> 9) @@
    ("G" :> 10) @@ ("H" :> 11) @@ ("I" :> 12) @@ ("J" :> 13) @@ ("K" :> 14) @@ ("L" :> 15) @@
    ("M" :> 16) @@ ("N" :> 17) @@ ("O" :> 18) @@ ("P" :> 19) @@ ("Q" :> 20) @@ ("R" :> 21) @@
    ("S" :> 22) @@ ("T" :> 23) @@ ("U" :> 24) @@ ("V" :> 25) @@ ("W" :> 26) @@ ("X" :> 27) @@
    ("Y" :> 28) @@ ("Z" :> 29) @@ ("!" :> 30) @@ ("@" :> 31) @@ ("#" :> 32) @@ ("$" :> 33) @@
    ("%" :> 34) @@ ("^" :> 35) @@ ("&" :> 36) @@ ("*" :> 37) @@ ("(" :> 38) @@ (")" :> 39) @@
    ("<" :> 54) @@ (">" :> 55) @@ ("?" :> 56) @@ (":" :> 51) @@ ("\"" :> 52) @@ ("{" :> 47) @@
    ("}" :> 48) @@ ("|" :> 49) @@ ("_" :> 45) @@ ("+" :> 46) @@ ("~" :> 53)

\* Named special keys; a name is the sequence of its characters.
SPECIAL_KEYS ==
    (<<"E", "N", "T", "E", "R">> :> 40) @@ (<<"R", "E", "T", "U", "R", "N">> :> 40) @@
    (<<"E", "S", "C", "A", "P", "E">> :> 41) @@ (<<"E", "S", "C">> :> 41) @@
    (<<"B", "A", "C", "K", "S", "P", "A", "C", "E">> :> 42) @@ (<<"B", "S", "P", "A", "C", "E">> :> 42) @@
    (<<"T", "A", "B">> :> 43) @@ (<<"S", "P", "A", "C", "E">> :> 44) @@
    (<<"C", "A", "P", "S", "L", "O", "C", "K">> :> 57) @@ (<<"F", "1">> :> 58) @@
    (<<"F", "2">> :> 59) @@ (<<"F", "3">> :> 60) @@
    (<<"F", "4">> :> 61) @@ (<<"F", "5">> :> 62) @@
    (<<"F", "6">> :> 63) @@ (<<"F", "7">> :> 64) @@
    (<<"F", "8">> :> 65) @@ (<<"F", "9">> :> 66) @@
    (<<"F", "1", "0">> :> 67) @@ (<<"F", "1", "1">> :> 68) @@
    (<<"F", "1", "2">> :> 69) @@ (<<"P", "R", "I", "N", "T", "S", "C", "R", "E", "E", "N">> :> 70) @@
    (<<"S", "C", "R", "O", "L", "L", "L", "O", "C", "K">> :> 71) @@ (<<"P", "A", "U", "S", "E">> :> 72) @@
    (<<"B", "R", "E", "A", "K">> :> 72) @@ (<<"I", "N", "S", "E", "R", "T">> :> 73) @@
    (<<"H", "O", "M", "E">> :> 74) @@ (<<"P", "A", "G", "E", "U", "P">> :> 75) @@
    (<<"D", "E", "L", "E", "T", "E">> :> 76) @@ (<<"D", "E", "L">> :> 76) @@
    (<<"E", "N", "D">> :> 77) @@ (<<"P", "A", "G", "E", "D", "O", "W", "N">> :> 78) @@
    (<<"R", "I", "G", "H", "T">> :> 79) @@ (<<"R", "I", "G", "H", "T", "A", "R", "R", "O", "W">> :> 79) @@
    (<<"L", "E", "F", "T">> :> 80) @@ (<<"L", "E", "F", "T", "A", "R", "R", "O", "W">> :> 80) @@
    (<<"D", "O", "W", "N">> :> 81) @@ (<<"D", "O", "W", "N", "A", "R", "R", "O", "W">> :> 81) @@
    (<<"U", "P">> :> 82) @@ (<<"U", "P", "A", "R", "R", "O", "W">> :> 82) @@
    (<<"N", "U", "M", "L", "O", "C", "K">> :> 83) @@ (<<"A", "P", "P">> :> 101) @@
    (<<"M", "E", "N", "U">> :> 101)

\* str.upper() and str.lower() on the letters; other characters are unchanged.
UpperOf ==
    ("a" :> "A") @@ ("b" :> "B") @@ ("c" :> "C") @@ ("d" :> "D") @@ ("e" :> "E") @@ ("f" :> "F") @@
    ("g" :> "G") @@ ("h" :> "H") @@ ("i" :> "I") @@ ("j" :> "J") @@ ("k" :> "K") @@ ("l" :> "L") @@
    ("m" :> "M") @@ ("n" :> "N") @@ ("o" :> "O") @@ ("p" :> "P") @@ ("q" :> "Q") @@ ("r" :> "R") @@
    ("s" :> "S") @@ ("t" :> "T") @@ ("u" :> "U") @@ ("v" :> "V") @@ ("w" :> "W") @@ ("x" :> "X") @@
    ("y" :> "Y") @@ ("z" :> "Z")

LowerOf ==
    ("A" :> "a") @@ ("B" :> "b") @@ ("C" :> "c") @@ ("D" :> "d") @@ ("E" :> "e") @@ ("F" :> "f") @@
    ("G" :> "g") @@ ("H" :> "h") @@ ("I" :> "i") @@ ("J" :> "j") @@ ("K" :> "k") @@ ("L" :> "l") @@
    ("M" :> "m") @@ ("N" :> "n") @@ ("O" :> "o") @@ ("P" :> "p") @@ ("Q" :> "q") @@ ("R" :> "r") @@
    ("S" :> "s") @@ ("T" :> "t") @@ ("U" :> "u") @@ ("V" :> "v") @@ ("W" :> "w") @@ ("X" :> "x") @@
    ("Y" :> "y") @@ ("Z" :> "z")

DigitOf ==
    ("0" :> 0) @@ ("1" :> 1) @@ ("2" :> 2) @@ ("3" :> 3) @@ ("4" :> 4) @@ ("5" :> 5) @@
    ("6" :> 6) @@ ("7" :> 7) @@ ("8" :> 8) @@ ("9" :> 9)
MOD_NONE == 0
MOD_CTRL == 1
MOD_SHIFT == 2
MOD_ALT == 4
MOD_GUI == 8

\* None, the result of get_key_code when no table has the name.
None == -1

-----------------------------------------------------------------------------
(* Python str and int operations.                                          *)

\* The characters str.strip() and str.split() take for whitespace.
IsSpace(c) == c \in {" ", "\t", "\n", "\r"}

upper(s) == [i \in 1..Len(s) |-> IF s[i] \in DOMAIN UpperOf THEN UpperOf[s[i]] ELSE s[i]]

lower(s) == [i \in 1..Len(s) |-> IF s[i] \in DOMAIN LowerOf THEN LowerOf[s[i]] ELSE s[i]]

startswith(s, prefix) ==
    /\ Len(s) >= Len(prefix)
    /\ SubSeq(s, 1, Len(prefix)) = prefix

\* s[n:]
SliceFrom(s, n) == SubSeq(s, n + 1, Len(s))

RECURSIVE lstrip(_)
lstrip(s) ==
    IF s # <<>> /\ IsSpace(Head(s)) THEN lstrip(Tail(s)) ELSE s

RECURSIVE rstrip(_)
rstrip(s) ==
    IF s # <<>> /\ IsSpace(s[Len(s)]) THEN rstrip(SubSeq(s, 1, Len(s) - 1)) ELSE s

\* str.strip()
strip(s) == rstrip(lstrip(s))

\* str.split(): the maximal runs of non-whitespace characters, in order.
RECURSIVE SplitFrom(_, _, _)
SplitFrom(s, cur, acc) ==
    IF s = <<>>
    THEN IF cur = <<>> THEN acc ELSE Append(acc, cur)
    ELSE IF IsSpace(Head(s))
         THEN SplitFrom(Tail(s), <<>>, IF cur = <<>> THEN acc ELSE Append(acc, cur))
         ELSE SplitFrom(Tail(s), Append(cur, Head(s)), acc)

split(s) == SplitFrom(s, <<>>, <<>>)

\* needle in haystack, for two str: needle is a substring of haystack.
IsSubstring(needle, haystack) ==
    \E i \in 1..(Len(haystack) + 1) :
        /\ i + Len(needle) - 1 <= Len(haystack)
        /\ SubSeq(haystack, i, i + Len(needle) - 1) = needle

\* The digits of an int() literal: digits, single underscores between digits.
IsDigits(s) ==
    /\ s # <<>>
    /\ \A i \in 1..Len(s) :
          \/ s[i] \in DOMAIN DigitOf
          \/ /\ s[i] = "_"
             /\ 1 < i /\ i < Len(s)
             /\ s[i - 1] \in DOMAIN DigitOf
             /\ s[i + 1] \in DOMAIN DigitOf

RECURSIVE DigitsValue(_, _)
DigitsValue(s, acc) ==
    IF s = <<>> THEN acc
    ELSE IF Head(s) = "_" THEN DigitsValue(Tail(s), acc)
    ELSE DigitsValue(Tail(s), 10 * acc + DigitOf[Head(s)])

\* int(s) accepts an optional sign and then digits.
IntOk(s) ==
    /\ s # <<>>
    /\ IF Head(s) \in {"+", "-"} THEN IsDigits(Tail(s)) ELSE IsDigits(s)

\* int(s) when IntOk(s); int(s) raises ValueError otherwise.
IntValue(s) ==
    IF Head(s) = "-" THEN 0 - DigitsValue(Tail(s), 0)
    ELSE IF Head(s) = "+" THEN DigitsValue(Tail(s), 0)
    ELSE DigitsValue(s, 0)

-----------------------------------------------------------------------------
(* Encoders.                                                               *)

\* A chunk that no longer fits the byte that carries it.
chunk_of_256(ms) == IF ms < 256 THEN ms ELSE 256

\* chunk = min(ms, 255)
chunk_of(ms) == IF ms < 255 THEN ms ELSE 255

RECURSIVE encode_delay(_)
encode_delay(ms) ==
    IF ms > 0
    THEN <<0, chunk_of(ms)>> \o encode_delay(ms - chunk_of(ms))
    ELSE <<>>

\* An unshifted character encoded without its modifier byte.
encode_char_keycode_only(char) ==
    IF char \in DOMAIN KEYCODES THEN <<KEYCODES[char]>>
    ELSE IF char \in DOMAIN SHIFT_CHARS THEN <<SHIFT_CHARS[char], MOD_SHIFT>>
    ELSE <<>>

\* [keycode, modifier]; an unknown character is skipped with a warning.
encode_char(char) ==
    IF char \in DOMAIN KEYCODES THEN <<KEYCODES[char], MOD_NONE>>
    ELSE IF char \in DOMAIN SHIFT_CHARS THEN <<SHIFT_CHARS[char], MOD_SHIFT>>
    ELSE <<>>

RECURSIVE encode_string(_)
encode_string(text) ==
    IF text = <<>> THEN <<>>
    ELSE encode_char(Head(text)) \o encode_string(Tail(text))

-----------------------------------------------------------------------------
(* Key lookup and the modifier-combo resolver.                             *)

get_key_code(key_name) ==
    IF upper(key_name) \in DOMAIN SPECIAL_KEYS
    THEN SPECIAL_KEYS[upper(key_name)]
    ELSE IF Len(key_name) = 1 /\ lower(key_name)[1] \in DOMAIN KEYCODES
    THEN KEYCODES[lower(key_name)[1]]
    ELSE IF Len(key_name) = 1 /\ key_name[1] \in DOMAIN SHIFT_CHARS
    THEN SHIFT_CHARS[key_name[1]]
    ELSE None

\* modifier |= bit, for a single bit.
BitOr(modifier, bit) ==
    IF (modifier \div bit) % 2 = 1 THEN modifier ELSE modifier + bit

\* The for loop of parse_modifier_combo over the remaining parts.
\* ('SHIFT') is the str 'SHIFT', not a tuple: `in` is the substring test.
RECURSIVE ScanParts(_, _, _)
ScanParts(parts, modifier, keycode) ==
    IF parts = <<>> THEN [modifier |-> modifier, keycode |-> keycode]
    ELSE LET part == Head(parts)
             part_upper == upper(part)
         IN  IF part_upper \in {<<"C", "T", "R", "L">>, <<"C", "O", "N", "T", "R", "O", "L">>}
             THEN ScanParts(Tail(parts), BitOr(modifier, MOD_CTRL), keycode)
             ELSE IF IsSubstring(part_upper, <<"S", "H", "I", "F", "T">>)
             THEN ScanParts(Tail(parts), BitOr(modifier, MOD_SHIFT), keycode)
             ELSE IF part_upper \in {<<"A", "L", "T">>, <<"O", "P", "T", "I", "O", "N">>}
             THEN ScanParts(Tail(parts), BitOr(modifier, MOD_ALT), keycode)
             ELSE IF part_upper \in {<<"G", "U", "I">>, <<"W", "I", "N", "D", "O", "W", "S">>, <<"C", "O", "M", "M", "A", "N", "D">>, <<"C", "M", "D">>, <<"M", "E", "T", "A">>}
             THEN ScanParts(Tail(parts), BitOr(modifier, MOD_GUI), keycode)
             ELSE ScanParts(Tail(parts), modifier, get_key_code(part))

parse_modifier_combo(line) ==
    LET r == ScanParts(split(line), MOD_NONE, None)
    IN  IF r.keycode # None THEN <<r.keycode, r.modifier>>
        ELSE IF r.modifier # MOD_NONE THEN <<0, r.modifier>>
        ELSE <<>>

-----------------------------------------------------------------------------
(* The line dispatcher, compile_script.                                    *)

\* The keywords that send a line to parse_modifier_combo.
ModifierPrefixes ==
    {<<"C", "T", "R", "L">>, <<"C", "O", "N", "T", "R", "O", "L">>, <<"A", "L", "T">>, <<"S", "H", "I", "F", "T">>, <<"G", "U", "I">>, <<"W", "I", "N", "D", "O", "W", "S">>, <<"C", "O", "M", "M", "A", "N", "D">>, <<"C", "M", "D">>}

\* Empty lines and comments are skipped.
IsSkipped(line) ==
    \/ line = <<>>
    \/ startswith(line, <<"R", "E", "M">>)
    \/ startswith(line, <<"/", "/">>)

\* The default delay goes in even before the first instruction.
DelayBeforeUnguarded(p, dd) ==
    IF dd > 0 THEN p \o encode_delay(dd) ELSE p

\* Add default delay between commands if set.
DelayBefore(p, dd) ==
    IF dd > 0 /\ p # <<>> THEN p \o encode_delay(dd) ELSE p

\* payload[-2:]
LastInstruction(p) == SubSeq(p, Len(p) - 1, Len(p))

\* for _ in range(count): payload.extend(last_instruction)
RECURSIVE Copies(_, _)
Copies(count, instruction) ==
    IF count <= 0 THEN <<>> ELSE instruction \o Copies(count - 1, instruction)

Ok(rule, p, dd) == [exc |-> "none", rule |-> rule, payload |-> p, default_delay |-> dd]

Raise(rule, exc, p, dd) == [exc |-> exc, rule |-> rule, payload |-> p, default_delay |-> dd]

\* int(line.split()[1]): IndexError without a second token, ValueError on a bad one.
ArgError(line) ==
    IF Len(split(line)) < 2 THEN "IndexError"
    ELSE IF ~IntOk(split(line)[2]) THEN "ValueError"
    ELSE "none"

\* The try block, run on the stripped line with the payload p it finds.
Body(line, p, dd) ==
    IF startswith(line, <<"D", "E", "F", "A", "U", "L", "T", "_", "D", "E", "L", "A", "Y">>) \/ startswith(line, <<"D", "E", "F", "A", "U", "L", "T", "D", "E", "L", "A", "Y">>)
    THEN IF ArgError(line) # "none"
         THEN Raise("default_delay", ArgError(line), p, dd)
         ELSE Ok("default_delay", p, IntValue(split(line)[2]))
    ELSE IF startswith(line, <<"D", "E", "L", "A", "Y">>)
    THEN IF ArgError(line) # "none"
         THEN Raise("delay", ArgError(line), p, dd)
         ELSE Ok("delay", p \o encode_delay(IntValue(split(line)[2])), dd)
    ELSE IF startswith(line, <<"S", "T", "R", "I", "N", "G", " ">>)
    THEN Ok("string", p \o encode_string(SliceFrom(line, 7)), dd)
    ELSE IF startswith(line, <<"S", "T", "R", "I", "N", "G", "L", "N", " ">>)
    THEN Ok("stringln",
            p \o encode_string(SliceFrom(line, 9)) \o <<SPECIAL_KEYS[<<"E", "N", "T", "E", "R">>], MOD_NONE>>,
            dd)
    ELSE IF line \in DOMAIN SPECIAL_KEYS
    THEN Ok("special", p \o <<SPECIAL_KEYS[line], MOD_NONE>>, dd)
    ELSE IF \E mod \in ModifierPrefixes : startswith(upper(line), mod)
    THEN Ok("combo", p \o parse_modifier_combo(line), dd)
    ELSE IF startswith(line, <<"R", "E", "P", "E", "A", "T">>) \/ startswith(line, <<"R", "E", "P", "L", "A", "Y">>)
    THEN IF Len(split(line)) > 1 /\ ~IntOk(split(line)[2])
         THEN Raise("repeat", "ValueError", p, dd)
         ELSE LET count == IF Len(split(line)) > 1 THEN IntValue(split(line)[2]) ELSE 1
              IN  IF Len(p) >= 2
                  THEN Ok("repeat", p \o Copies(count, LastInstruction(p)), dd)
                  ELSE Ok("repeat", p, dd)
    ELSE Ok("unknown", p, dd)

\* except ValueError: an IndexError leaves compile_script.
CaughtValueErrorOnly(exc) == exc = "ValueError"

\* except Exception: ValueError and IndexError are both caught.
Caught(exc) == exc \in {"ValueError", "IndexError"}

\* bytes(payload) raises ValueError unless every value is in range(256).
IsBytes(p) == \A i \in 1..Len(p) : p[i] \in 0..255

\* No direct call of a pure function is in progress.
NoCall == [fn |-> "none"]

CurLine == strip(lines[line_num])

LogEntry(rule, exc, before, inserted, after, dd_after) ==
    [line_num |-> line_num, raw |-> lines[line_num], rule |-> rule, exc |-> exc,
     before |-> before, inserted |-> inserted,
     own |-> SubSeq(after, Len(before) + Len(inserted) + 1, Len(after)),
     dd_before |-> default_delay, dd_after |-> dd_after]

\* if not line or line.startswith('REM') or line.startswith('//'): continue
SkipLine ==
    /\ pc = "loop"
    /\ line_num <= Len(lines)
    /\ \E line \in {CurLine} :
          /\ IsSkipped(line)
          /\ log' = Append(log, LogEntry("skip", "none", payload, <<>>, payload, default_delay))
    /\ line_num' = line_num + 1
    /\ UNCHANGED <<lines, payload, default_delay, pc, output, call>>

\* One iteration whose try block ends normally.
CompileLine ==
    /\ pc = "loop"
    /\ line_num <= Len(lines)
    /\ \E line \in {CurLine} :
       \E p \in {DelayBefore(payload, default_delay)} :
       \E r \in {Body(line, p, default_delay)} :
          /\ ~IsSkipped(line)
          /\ r.exc = "none"
          /\ payload' = r.payload
          /\ default_delay' = r.default_delay
          /\ log' = Append(log, LogEntry(r.rule, "none", payload,
                               SubSeq(p, Len(payload) + 1, Len(p)),
                               r.payload, r.default_delay))
    /\ line_num' = line_num + 1
    /\ UNCHANGED <<lines, pc, output, call>>

\* One iteration whose try block raises: the handler reports and continues.
\* The default delay appended before the try block stays in the payload.
LineError ==
    /\ pc = "loop"
    /\ line_num <= Len(lines)
    /\ \E line \in {CurLine} :
       \E p \in {DelayBefore(payload, default_delay)} :
       \E r \in {Body(line, p, default_delay)} :
          /\ ~IsSkipped(line)
          /\ r.exc # "none"
          /\ payload' = p
          /\ log' = Append(log, LogEntry(r.rule, r.exc, payload,
                               SubSeq(p, Len(payload) + 1, Len(p)),
                               p, default_delay))
          /\ IF Caught(r.exc)
             THEN /\ line_num' = line_num + 1
                  /\ pc' = pc
             ELSE /\ line_num' = line_num
                  /\ pc' = "crashed"
    /\ UNCHANGED <<lines, default_delay, output, call>>

\* After the loop: f.write(bytes(payload)).
WriteOutput ==
    /\ pc = "loop"
    /\ line_num > Len(lines)
    /\ IF IsBytes(payload)
       THEN /\ output' = payload
            /\ pc' = "done"
       ELSE /\ output' = output
            /\ pc' = "crashed"
    /\ UNCHANGED <<lines, line_num, payload, default_delay, log, call>>

-----------------------------------------------------------------------------
(* Scripts.                                                                *)

\* f.readlines(): every line keeps its line terminator.
ReadLines(contents) == [i \in 1..Len(contents) |-> Append(contents[i], "\n")]

\* The scripts of at most n lines over a pool of lines.
ScriptsOver(pool, n) ==
    UNION {[1..k -> pool] : k \in 0..n}

\* One line or more of every kind the dispatcher tells apart.
GeneralLines ==
    {<<"R", "E", "M", " ", "n", "o", "t", "e">>,
     <<"D", "E", "F", "A", "U", "L", "T", "_", "D", "E", "L", "A", "Y", " ", "5">>,
     <<"D", "E", "L", "A", "Y", " ", "3", "0", "0">>,
     <<"S", "T", "R", "I", "N", "G", " ", "H", "i">>,
     <<"S", "T", "R", "I", "N", "G", " ", " ", "a", " ">>,
     <<"S", "T", "R", "I", "N", "G", "L", "N", " ", "a", "\t", "b">>,
     <<"E", "N", "T", "E", "R">>,
     <<"e", "n", "t", "e", "r">>,
     <<"C", "T", "R", "L", " ", "A", "L", "T", " ", "D", "E", "L", "E", "T", "E">>,
     <<"G", "U", "I", " ", "r">>,
     <<"R", "E", "P", "E", "A", "T", " ", "2">>,
     <<"R", "E", "P", "L", "A", "Y">>,
     <<"F", "O", "O", "B", "A", "R">>,
     <<"D", "E", "L", "A", "Y", " ", "x">>,
     <<"R", "E", "P", "E", "A", "T", " ", "x">>}

\* The lines that go wrong, one way each, among lines that emit.
FaultyLines ==
    {<<"/", "/", " ", "n", "o", "t", "e">>,
     <<"S", "T", "R", "I", "N", "G", " ", "a">>,
     <<"D", "E", "F", "A", "U", "L", "T", "_", "D", "E", "L", "A", "Y", " ", "5">>,
     <<"D", "E", "L", "A", "Y", " ", "1", "O">>,
     <<"D", "E", "L", "A", "Y">>,
     <<"D", "E", "F", "A", "U", "L", "T", "_", "D", "E", "L", "A", "Y">>,
     <<"R", "E", "P", "E", "A", "T", " ", "2", "x">>,
     <<"F", "O", "O", "B", "A", "R">>,
     <<"S", "T", "R", "I", "N", "G", " ", "\t", "a">>,
     <<"C", "T", "R", "L", " ", "F", "O", "O">>}

\* Lines around a default delay: emitting lines and lines that emit nothing.
DelayLines ==
    {<<"D", "E", "F", "A", "U", "L", "T", "_", "D", "E", "L", "A", "Y", " ", "5">>,
     <<"D", "E", "F", "A", "U", "L", "T", "_", "D", "E", "L", "A", "Y", " ", "3", "0", "0">>,
     <<"S", "T", "R", "I", "N", "G", " ", "a">>,
     <<"S", "T", "R", "I", "N", "G", " ", "Y", "o">>,
     <<"T", "A", "B">>,
     <<"F", "O", "O", "B", "A", "R">>,
     <<"R", "E", "M", " ", "n", "o", "t", "e">>,
     <<>>,
     <<"D", "E", "L", "A", "Y", " ", "x">>}

\* Longest script around a default delay, in lines.
MaxDelayLines == 4

\* compile_script has set payload = [] and default_delay = 0; the script is not read yet.
Init ==
    /\ lines = <<>>
    /\ line_num = 1
    /\ payload = <<>>
    /\ default_delay = 0
    /\ pc = "open"
    /\ output = <<>>
    /\ log = <<>>
    /\ call = NoCall

\* with open(input_path, 'r') as f: lines = f.readlines()
ReadScript(scripts) ==
    /\ pc = "open"
    /\ lines' \in {ReadLines(s) : s \in scripts}
    /\ pc' = "loop"
    /\ UNCHANGED <<line_num, payload, default_delay, output, log, call>>

\* The for loop over the lines, then the write.
Compile ==
    \/ SkipLine
    \/ CompileLine
    \/ LineError
    \/ WriteOutput

ReadGeneral == ReadScript(ScriptsOver(GeneralLines, MaxLines))

Next == ReadGeneral \/ Compile

Spec == Init /\ [][Next]_vars

ReadFaulty == ReadScript(ScriptsOver(FaultyLines, MaxLines))

FaultyNext == ReadFaulty \/ Compile

\* The program is sequential: once the script is read, the loop and the write that
\* follows it keep running until compile_script returns.
FairSpec == Init /\ [][FaultyNext]_vars /\ WF_vars(Compile)

ReadDelays == ReadScript(ScriptsOver(DelayLines, MaxDelayLines))

DelayNext == ReadDelays \/ Compile

DelaySpec == Init /\ [][DelayNext]_vars

-----------------------------------------------------------------------------
(* Direct calls of the pure functions.                                     *)

Idle ==
    /\ lines = <<>>
    /\ line_num = 1
    /\ payload = <<>>
    /\ default_delay = 0
    /\ pc = "idle"
    /\ output = <<>>
    /\ log = <<>>

Return(result) ==
    /\ call.state = "called"
    /\ call' = [call EXCEPT !.state = "returned", !.ret = result]
    /\ UNCHANGED <<lines, line_num, payload, default_delay, pc, output, log>>

EncodeDelayInit ==
    /\ Idle
    /\ call \in {[fn |-> "encode_delay", arg |-> ms, state |-> "called", ret |-> <<>>] :
                    ms \in (0 - MaxMs)..MaxMs}

CallEncodeDelay ==
    /\ call.fn = "encode_delay"
    /\ Return(encode_delay(call.arg))

EncodeDelaySpec == EncodeDelayInit /\ [][CallEncodeDelay]_vars

\* The aliases of the four modifiers, as the documentation of the resolver lists them.
ModifierAliases ==
    (<<"C", "T", "R", "L">> :> MOD_CTRL) @@ (<<"C", "O", "N", "T", "R", "O", "L">> :> MOD_CTRL) @@
    (<<"S", "H", "I", "F", "T">> :> MOD_SHIFT) @@
    (<<"A", "L", "T">> :> MOD_ALT) @@ (<<"O", "P", "T", "I", "O", "N">> :> MOD_ALT) @@
    (<<"G", "U", "I">> :> MOD_GUI) @@ (<<"W", "I", "N", "D", "O", "W", "S">> :> MOD_GUI) @@ (<<"C", "O", "M", "M", "A", "N", "D">> :> MOD_GUI) @@
    (<<"C", "M", "D">> :> MOD_GUI) @@ (<<"M", "E", "T", "A">> :> MOD_GUI)

\* The single letters and digits of the unshifted table.
LettersAndDigits ==
    {c \in DOMAIN KEYCODES : c \in DOMAIN UpperOf \/ c \in DOMAIN DigitOf}

\* The lines 'M k': a modifier alias, a space, a letter or digit.
ComboLines ==
    {m \o <<" ", k>> : m \in DOMAIN ModifierAliases, k \in LettersAndDigits}

ComboInit ==
    /\ Idle
    /\ call \in {[fn |-> "parse_modifier_combo", arg |-> l, state |-> "called", ret |-> <<>>] :
                    l \in ComboLines}

CallParseModifierCombo ==
    /\ call.fn = "parse_modifier_combo"
    /\ Return(parse_modifier_combo(call.arg))

ComboSpec == ComboInit /\ [][CallParseModifierCombo]_vars

-----------------------------------------------------------------------------
(* Properties.                                                             *)

\* The payload right after the line of a log entry.
After(e) == e.before \o e.inserted \o e.own

\* The text of a script line without its line terminator.
Content(raw) ==
    IF raw # <<>> /\ raw[Len(raw)] = "\n" THEN SubSeq(raw, 1, Len(raw) - 1) ELSE raw

\* How many instructions of p are the instruction instr.
CountInstr(p, instr) ==
    Cardinality({j \in 1..(Len(p) \div 2) : SubSeq(p, 2 * j - 1, 2 * j) = instr})

\* The entry of a line that went wrong: its argument did not parse, or no rule took it.
IsBadEntry(e) == e.exc # "none" \/ e.rule = "unknown"

\* C1: a recoverable-bad line (a malformed or missing numeric argument, an
\* unrecognized command) contributes no bytes and leaves the payload and the
\* default delay exactly as they were before the line.
C1_BadLineChangesNothing ==
    \A k \in 1..Len(log) :
        IsBadEntry(log[k]) =>
            /\ After(log[k]) = log[k].before
            /\ log[k].dd_after = log[k].dd_before

\* C2: for every modifier alias M and every letter or digit k, the resolver turns
\* the line 'M k' into the one instruction (code(k), bit(M)).
C2_AliasPlusKey ==
    call.state = "returned" =>
        \A m \in DOMAIN ModifierAliases, k \in LettersAndDigits :
            call.arg = m \o <<" ", k>> =>
                call.ret = <<KEYCODES[k], ModifierAliases[m]>>

\* The count a REPEAT or REPLAY line asks for: its second token, 1 without one.
RepeatCount(raw) ==
    IF Len(split(raw)) > 1 THEN IntValue(split(raw)[2]) ELSE 1

\* C3: when a STRING line that emits is immediately followed by REPEAT n (n >= 1,
\* or n omitted, meaning 1), the payload after the REPEAT line holds n further
\* copies of the last instruction of the STRING line, whatever the default delay.
C3_RepeatAfterString ==
    \A k \in 1..(Len(log) - 1) :
        LET s == log[k]
            r == log[k + 1]
        IN  ( /\ s.rule = "string"
              /\ s.own # <<>>
              /\ r.rule = "repeat"
              /\ r.exc = "none"
              /\ RepeatCount(r.raw) >= 1 )
            => CountInstr(After(r), LastInstruction(s.own))
                 = CountInstr(r.before, LastInstruction(s.own)) + RepeatCount(r.raw)

\* C4: a line 'STRING <text>' appends encode_string(text) as its own command,
\* text being every character of the line after the space that follows the
\* keyword, leading and trailing spaces included.
C4_StringTextVerbatim ==
    \A k \in 1..Len(log) :
        startswith(Content(log[k].raw), <<"S", "T", "R", "I", "N", "G", " ">>) =>
            log[k].own = encode_string(SliceFrom(Content(log[k].raw), 7))

\* The text a STRING line hands to encode_string.
StringText(raw) == SliceFrom(strip(raw), 7)

\* A script DEFAULT_DELAY d (d > 0), then two STRING lines that both emit.
IsDelayThenTwoStrings ==
    /\ Len(lines) = 3
    /\ Len(log) = 3
    /\ log[1].rule = "default_delay" /\ log[1].exc = "none" /\ log[1].dd_after > 0
    /\ log[2].rule = "string" /\ log[2].own # <<>>
    /\ log[3].rule = "string" /\ log[3].own # <<>>

\* C5: DEFAULT_DELAY d (d > 0) followed by two STRING lines that emit yields
\* encode_string(first) ++ encode_delay(d) ++ encode_string(second); and the first
\* instruction ever placed in the payload is never an inserted default delay.
C5_OneDelayBetweenTwoStrings ==
    /\ (pc = "done" /\ IsDelayThenTwoStrings) =>
           output = encode_string(StringText(lines[2]))
                    \o encode_delay(log[1].dd_after)
                    \o encode_string(StringText(lines[3]))
    /\ \A k \in 1..Len(log) : log[k].before = <<>> => log[k].inserted = <<>>

C5_Witness ==
    /\ pc = "done"
    /\ IsDelayThenTwoStrings
    /\ default_delay = 300
    /\ output = <<4, 0, 0, 255, 0, 45, 28, 2, 18, 0>>

\* C6: after every line of any script the payload length is even.
C6_PayloadLengthEven == Len(payload) % 2 = 0

C6_Witness ==
    /\ pc = "done"
    /\ \E k \in 1..Len(log) : log[k].rule = "repeat" /\ log[k].own # <<>>
    /\ \E k \in 1..Len(log) : log[k].rule = "stringln" /\ Len(log[k].own) = 6
    /\ \E k \in 1..Len(log) : log[k].exc # "none"

RECURSIVE SumChunks(_)
SumChunks(r) == IF r = <<>> THEN 0 ELSE r[2] + SumChunks(SubSeq(r, 3, Len(r)))

\* ceil(ms / 255) for ms > 0
ChunksNeeded(ms) == (ms + 254) \div 255

\* C7: encode_delay(ms) returns for every ms; for ms > 0 it is ceil(ms/255) pairs
\* (0, chunk), chunks in 1..255, all 255 but possibly the last, summing to ms;
\* for ms <= 0 it is empty. encode_delay(300) = [0,255,0,45], encode_delay(255) = [0,255].
C7_EncodeDelayChunks ==
    /\ (call.fn = "encode_delay" /\ call.state = "called") => ENABLED CallEncodeDelay
    /\ (call.fn = "encode_delay" /\ call.state = "returned") =>
          LET ms == call.arg
              r == call.ret
          IN  IF ms <= 0 THEN r = <<>>
              ELSE /\ Len(r) = 2 * ChunksNeeded(ms)
                   /\ \A j \in 1..ChunksNeeded(ms) :
                         /\ r[2 * j - 1] = 0
                         /\ r[2 * j] \in 1..255
                         /\ j < ChunksNeeded(ms) => r[2 * j] = 255
                   /\ SumChunks(r) = ms
                   /\ ms = 300 => r = <<0, 255, 0, 45>>
                   /\ ms = 255 => r = <<0, 255>>

C7_Witness ==
    /\ call.fn = "encode_delay"
    /\ call.state = "returned"
    /\ call.arg = 300
    /\ call.ret = <<0, 255, 0, 45>>

\* C8: compilation of any finite script, once read, reaches the end of input and
\* writes the payload; every line, also after a bad one, has been gone through
\* in order.
C8_AlwaysReachesOutput ==
    (pc = "loop") ~> ( /\ pc = "done"
                       /\ output = payload
                       /\ Len(log) = Len(lines)
                       /\ \A k \in 1..Len(log) : log[k].line_num = k )

C8_Witness ==
    /\ pc = "done"
    /\ \E k \in 1..(Len(log) - 1) :
          /\ log[k].exc = "IndexError"
          /\ log[k + 1].own # <<>>
    /\ \E k \in 1..Len(log) : log[k].exc = "ValueError"

\* The default-delay bytes inserted after line a up to and including line b.
RECURSIVE InsertedBetween(_, _)
InsertedBetween(a, b) ==
    IF a >= b THEN <<>> ELSE InsertedBetween(a, b - 1) \o log[b].inserted

\* C9: with the default delay set to d > 0 and unchanged, two lines that append
\* instructions of their own, with only non-emitting lines between them, have
\* exactly one encode_delay(d) group between their bytes.
C9_OneDelayBetweenEmittingLines ==
    \A a \in 1..Len(log), b \in 1..Len(log) :
        ( /\ a < b
          /\ log[a].own # <<>>
          /\ log[b].own # <<>>
          /\ \A k \in (a + 1)..(b - 1) : log[k].own = <<>>
          /\ log[a].dd_before > 0
          /\ \A k \in a..b : /\ log[k].dd_before = log[a].dd_before
                             /\ log[k].dd_after = log[a].dd_before )
        => InsertedBetween(a, b) = encode_delay(log[a].dd_before)

\* C10: a line that, trimmed, is the name of a special key in any letter case is
\* taken by the special-key rule and appends the one instruction (code, NONE).
C10_SpecialKeyAnyCase ==
    \A k \in 1..Len(log) :
        upper(strip(log[k].raw)) \in DOMAIN SPECIAL_KEYS =>
            /\ log[k].rule = "special"
            /\ log[k].own = <<SPECIAL_KEYS[upper(strip(log[k].raw))], MOD_NONE>>

====
